---- MODULE Spec2Model ----
(***************************************************************************)
(* AutoDoc metadata model: the confidence scale, the metadata record and   *)
(* ProjectMetadata.merge_from (src/autodoc/schema.py), the reporting       *)
(* methods of the record, the extractor registry                           *)
(* (src/autodoc/extractors/base.py), the enhancers (src/autodoc/github.py, *)
(* src/autodoc/llm.py), metadata_to_dict and process_project               *)
(* (src/autodoc/api.py) and PythonExtractor.extract                        *)
(* (src/autodoc/extractors/python.py).                                     *)
(*                                                                         *)
(* Python objects live in a heap: a record id stands for one               *)
(* ProjectMetadata object, so a.merge_from(b) and r.merge_from(r) are      *)
(* different calls.  Every record owns its four lists and its warning      *)
(* list (dataclass default_factory); MetadataField and list-entry objects  *)
(* are never mutated by merge_from and are modelled as values.             *)
(* Optional[str] is a string, None is the string "None".  Confidence       *)
(* weights are the source's floats times ten.                              *)
(***************************************************************************)
EXTENDS Integers, Sequences, FiniteSets, TLC

VARIABLES heap, initial, calls, assigned, answer, registry, runs, outcome

vars == <<heap, initial, calls, assigned, answer, registry, runs, outcome>>

-----------------------------------------------------------------------------
(* Bounds *)

NumRecords == 3

MaxCalls == 2

MaxAssignments == 1

MaxExtractors == 3

MaxRuns == 2
(* calls of an enhancer on one record *)
MaxEnhancements == 2

RecordIds == 0 .. (NumRecords - 1)

-----------------------------------------------------------------------------
(* Confidence *)

None == "None"

ConfidenceLevels == <<"UNKNOWN", "GUESS", "WEAK", "REASONABLE", "STRONG", "EXPLICIT">>

Confidence == {ConfidenceLevels[i] : i \in 1 .. Len(ConfidenceLevels)}

Weight(c) ==
    CASE c = "EXPLICIT" -> 10
      [] c = "STRONG" -> 8
      [] c = "REASONABLE" -> 6
      [] c = "WEAK" -> 4
      [] c = "GUESS" -> 2
      [] c = "UNKNOWN" -> 0

-----------------------------------------------------------------------------
(* MetadataField and the list entries *)

MetadataField(v, c, s, n) == [value |-> v, confidence |-> c, source |-> s, note |-> n]

is_placeholder_confidenceOnly(fld) == fld.confidence = "UNKNOWN"

is_placeholder(fld) == fld.value = None \/ fld.confidence = "UNKNOWN"

needs_review_orEqual(fld) == Weight(fld.confidence) <= Weight("REASONABLE")

needs_review(fld) == Weight(fld.confidence) < Weight("REASONABLE")

Dependency(n, vc, dev, s) == [name |-> n, version_constraint |-> vc, is_dev |-> dev, source |-> s]

Author(n, e, r, s) == [name |-> n, email |-> e, role |-> r, source |-> s]

EntryPoint(p, t, cmd, c, n) == [path |-> p, entry_type |-> t, command |-> cmd, confidence |-> c, note |-> n]

-----------------------------------------------------------------------------
(* ProjectMetadata *)

FIELD_NAMES == <<"name", "description", "version", "license",
                 "python_version", "repository_url", "homepage_url",
                 "primary_language">>

FieldSet == {FIELD_NAMES[i] : i \in 1 .. Len(FIELD_NAMES)}

FLAG_NAMES == <<"has_tests", "has_docs_folder", "has_examples", "has_ci_config">>

FlagSet == {FLAG_NAMES[i] : i \in 1 .. Len(FLAG_NAMES)}

LIST_NAMES == <<"authors", "dependencies", "dev_dependencies", "entry_points">>

ListSet == {LIST_NAMES[i] : i \in 1 .. Len(LIST_NAMES)}

KeyOf(attr) == IF attr = "entry_points" THEN "path" ELSE "name"

DefaultNote(f) ==
    CASE f = "name" -> "Project name could not be detected"
      [] f = "description" -> "No project description found"
      [] f = "version" -> "Version not specified"
      [] f = "license" -> "No license file or declaration found"
      [] f = "python_version" -> "Python version requirement not specified"
      [] f = "repository_url" -> "Repository URL not found"
      [] f = "homepage_url" -> "Homepage URL not found"
      [] f = "primary_language" -> "Primary language not determined"

DefaultField(f) == MetadataField(None, "UNKNOWN", None, DefaultNote(f))

ProjectMetadata ==
    [name |-> DefaultField("name"),
     description |-> DefaultField("description"),
     version |-> DefaultField("version"),
     authors |-> <<>>,
     license |-> DefaultField("license"),
     dependencies |-> <<>>,
     dev_dependencies |-> <<>>,
     python_version |-> DefaultField("python_version"),
     entry_points |-> <<>>,
     repository_url |-> DefaultField("repository_url"),
     homepage_url |-> DefaultField("homepage_url"),
     has_tests |-> FALSE,
     has_docs_folder |-> FALSE,
     has_examples |-> FALSE,
     has_ci_config |-> FALSE,
     file_count |-> 0,
     primary_language |-> DefaultField("primary_language"),
     extraction_warnings |-> <<>>,
     key_features |-> <<>>,
     architecture_summary |-> None,
     config_files |-> <<>>]

(* get_placeholder_fields and get_low_confidence_fields walk the field     *)
(* names in their fixed order and append to the list they return           *)
RECURSIVE PlaceholderLoop(_, _, _)
PlaceholderLoop(rec, placeholders, i) ==
    IF i > Len(FIELD_NAMES) THEN placeholders
    ELSE LET field_name == FIELD_NAMES[i]
             field_value == rec[field_name]
         IN  IF is_placeholder(field_value)
             THEN PlaceholderLoop(rec, Append(placeholders, field_name), i + 1)
             ELSE PlaceholderLoop(rec, placeholders, i + 1)

get_placeholder_fields(rec) == PlaceholderLoop(rec, <<>>, 1)

RECURSIVE ReviewLoop(_, _, _)
ReviewLoop(rec, review_needed, i) ==
    IF i > Len(FIELD_NAMES) THEN review_needed
    ELSE LET field_name == FIELD_NAMES[i]
             field_value == rec[field_name]
         IN  IF needs_review(field_value)
             THEN ReviewLoop(rec, Append(review_needed, <<field_name, field_value.confidence>>), i + 1)
             ELSE ReviewLoop(rec, review_needed, i + 1)

get_low_confidence_fields(rec) == ReviewLoop(rec, <<>>, 1)

-----------------------------------------------------------------------------
(* ProjectMetadata.merge_from(self, other), on the heap h.  Every read of  *)
(* self or other goes to the heap as it is at that point of the call, so   *)
(* self and other may be the same object.                                  *)

HigherConfidence_orEqual(other_field, self_field) ==
    Weight(other_field.confidence) >= Weight(self_field.confidence)

HigherConfidence_anyKnown(other_field, self_field) ==
    other_field.confidence # "UNKNOWN"

HigherConfidence(other_field, self_field) ==
    Weight(other_field.confidence) > Weight(self_field.confidence)

Replacement_valueOnly(self_field, other_field) ==
    [self_field EXCEPT !.value = other_field.value, !.confidence = other_field.confidence]

Replacement(self_field, other_field) == other_field

RECURSIVE MergeFields(_, _, _, _)
MergeFields(h, self, other, i) ==
    IF i > Len(FIELD_NAMES) THEN h
    ELSE LET field_name == FIELD_NAMES[i]
             self_field == h[self][field_name]
             other_field == h[other][field_name]
         IN  IF HigherConfidence(other_field, self_field)
             THEN MergeFields([h EXCEPT ![self][field_name] = Replacement(self_field, other_field)],
                              self, other, i + 1)
             ELSE MergeFields(h, self, other, i + 1)

ExistingKeys_unseeded(h, self, attr) == {}

ExistingKeys(h, self, attr) ==
    {h[self][attr][j][KeyOf(attr)] : j \in 1 .. Len(h[self][attr])}

AddKey_forgotten(existing, key) == existing

AddKey(existing, key) == existing \cup {key}

AppendEntry_atFront(list, entry) == <<entry>> \o list

AppendEntry(list, entry) == Append(list, entry)

RECURSIVE MergeListLoop(_, _, _, _, _, _)
MergeListLoop(h, self, other, attr, existing, i) ==
    IF i > Len(h[other][attr]) THEN h
    ELSE LET entry == h[other][attr][i]
         IN  IF entry[KeyOf(attr)] \notin existing
             THEN MergeListLoop([h EXCEPT ![self][attr] = AppendEntry(@, entry)], self, other,
                                attr, AddKey(existing, entry[KeyOf(attr)]), i + 1)
             ELSE MergeListLoop(h, self, other, attr, existing, i + 1)

MergeList(h, self, other, attr) ==
    MergeListLoop(h, self, other, attr, ExistingKeys(h, self, attr), 1)

RECURSIVE MergeLists(_, _, _, _)
MergeLists(h, self, other, k) ==
    IF k > Len(LIST_NAMES) THEN h
    ELSE MergeLists(MergeList(h, self, other, LIST_NAMES[k]), self, other, k + 1)

FlagOr_overwrite(mine, theirs) == theirs

FlagOr(mine, theirs) == mine \/ theirs

RECURSIVE MergeFlags(_, _, _, _)
MergeFlags(h, self, other, k) ==
    IF k > Len(FLAG_NAMES) THEN h
    ELSE MergeFlags([h EXCEPT ![self][FLAG_NAMES[k]] = FlagOr(h[self][FLAG_NAMES[k]], h[other][FLAG_NAMES[k]])],
                    self, other, k + 1)

max_second(a, b) == b

max(a, b) == IF b > a THEN b ELSE a

MergeFileCount(h, self, other) ==
    [h EXCEPT ![self].file_count = max(h[self].file_count, h[other].file_count)]

MergeWarnings_deduplicated(h, self, other) ==
    [h EXCEPT ![self].extraction_warnings =
        h[self].extraction_warnings \o
        SelectSeq(h[other].extraction_warnings,
                  LAMBDA w : \A j \in 1 .. Len(h[self].extraction_warnings) :
                                 h[self].extraction_warnings[j] # w)]

MergeWarnings_intoOther(h, self, other) ==
    [h EXCEPT ![other].extraction_warnings = h[self].extraction_warnings \o h[other].extraction_warnings]

MergeWarnings(h, self, other) ==
    [h EXCEPT ![self].extraction_warnings = h[self].extraction_warnings \o h[other].extraction_warnings]

merge_from(h, self, other) ==
    LET h1 == MergeFields(h, self, other, 1)
        h2 == MergeLists(h1, self, other, 1)
        h3 == MergeFlags(h2, self, other, 1)
        h4 == MergeFileCount(h3, self, other)
    IN  MergeWarnings(h4, self, other)

-----------------------------------------------------------------------------
(* Input records.  A record is built the way the extractors and the tests  *)
(* build one: ProjectMetadata() followed by assignments to its attributes. *)
(* Every string an input carries names the record it was built for, so the *)
(* origin of each component stays visible after merging.                   *)

Origin(r) == "r" \o ToString(r)

ConfidenceAt(shift, i) == ConfidenceLevels[((i + shift) % Len(ConfidenceLevels)) + 1]

InputField(p, r, i) ==
    MetadataField(IF FIELD_NAMES[i] \in p.none THEN None ELSE "value-" \o Origin(r),
                  ConfidenceAt(p.shift, i),
                  "source-" \o Origin(r),
                  "note-" \o Origin(r))

AuthorNames == <<"Alice", "Bob">>

DependencyNames == <<"requests", "click", "pytest">>

EntryPaths == <<"main.py", "cli.py">>

Versions == <<None, ">=2.0", "==1.0">>

EntryTypes == <<"script", "cli", "module">>

InputAuthors(keys, r) ==
    [j \in 1 .. Len(keys) |->
        Author(AuthorNames[keys[j]], "email-" \o Origin(r), "role-" \o ToString(j), None)]

InputDependencies(keys, r, dev) ==
    [j \in 1 .. Len(keys) |->
        Dependency(DependencyNames[keys[j]], Versions[j], dev, "source-" \o Origin(r))]

InputEntryPoints(keys, r) ==
    [j \in 1 .. Len(keys) |->
        EntryPoint(EntryPaths[keys[j]], EntryTypes[j], None,
                   ConfidenceAt(r, j), "note-" \o Origin(r))]

InputWarnings(n, r) ==
    [j \in 1 .. n |-> "warning-" \o ToString(j) \o "-" \o Origin(r)]

InputProfiles ==
    << [shift |-> 1, none |-> {"version"},
       authors |-> <<1>>, dependencies |-> <<1>>, dev_dependencies |-> <<>>, entry_points |-> <<1>>,
       flags |-> {"has_tests"}, file_count |-> 1, warnings |-> 1],
      [shift |-> 2, none |-> {},
       authors |-> <<2, 1>>, dependencies |-> <<1, 2>>, dev_dependencies |-> <<1>>, entry_points |-> <<2>>,
       flags |-> {"has_docs_folder", "has_ci_config"}, file_count |-> 2, warnings |-> 0],
      [shift |-> 1, none |-> {"name", "license"},
       authors |-> <<1, 1>>, dependencies |-> <<2, 2>>, dev_dependencies |-> <<2, 1, 2>>, entry_points |-> <<1, 1>>,
       flags |-> {"has_examples"}, file_count |-> 0, warnings |-> 2],
      [shift |-> 4, none |-> {"description"},
       authors |-> <<>>, dependencies |-> <<2>>, dev_dependencies |-> <<3, 2>>, entry_points |-> <<2, 1>>,
       flags |-> {}, file_count |-> 3, warnings |-> 1] >>

InputRecord(p, r) ==
    [name |-> InputField(p, r, 1),
     description |-> InputField(p, r, 2),
     version |-> InputField(p, r, 3),
     authors |-> InputAuthors(p.authors, r),
     license |-> InputField(p, r, 4),
     dependencies |-> InputDependencies(p.dependencies, r, FALSE),
     dev_dependencies |-> InputDependencies(p.dev_dependencies, r, TRUE),
     python_version |-> InputField(p, r, 5),
     entry_points |-> InputEntryPoints(p.entry_points, r),
     repository_url |-> InputField(p, r, 6),
     homepage_url |-> InputField(p, r, 7),
     has_tests |-> "has_tests" \in p.flags,
     has_docs_folder |-> "has_docs_folder" \in p.flags,
     has_examples |-> "has_examples" \in p.flags,
     has_ci_config |-> "has_ci_config" \in p.flags,
     file_count |-> p.file_count,
     primary_language |-> InputField(p, r, 8),
     extraction_warnings |-> InputWarnings(p.warnings, r),
     key_features |-> <<>>,
     architecture_summary |-> None,
     config_files |-> <<>>]

(* record r built after profile k; profile 0 is the default record *)
RecordOf(k, r) == IF k = 0 THEN ProjectMetadata ELSE InputRecord(InputProfiles[k], r)

(* merge_from treats all records alike and any record may be self or other *)
(* of a call, so the records are numbered in the order of their profiles   *)
Constructions ==
    {k \in [RecordIds -> 0 .. Len(InputProfiles)] :
        \A r \in RecordIds, q \in RecordIds : r < q => k[r] <= k[q]}

-----------------------------------------------------------------------------
(* The state machine: heap is the records as they are now, initial the     *)
(* records as they were constructed, calls the merge_from calls made so    *)
(* far as <<self, other>> pairs.                                           *)

(* extract_all has not been called yet; outcome keeps the last call: its   *)
(* discovery result, the names of the extractors registered at the call,   *)
(* their warning buffers as the call found them, the registry positions of *)
(* those it ran, the records they returned, whether the call raised and,   *)
(* when it did not, the record it returned                                 *)
DiscoveryResult ==
    [files |-> {}, unparsable |-> {}, mistyped |-> {}, total_file_count |-> 0, warnings |-> <<>>]

NoOutcome ==
    [discovery |-> DiscoveryResult, extractors |-> <<>>, buffers |-> <<>>,
     ran |-> <<>>, results |-> <<>>, raised |-> FALSE, merged |-> ProjectMetadata]

(* no method has been called on a record yet *)
NoAnswer == [method |-> "none", record |-> ProjectMetadata, result |-> <<>>]

Init ==
    /\ \E k \in Constructions : heap = [r \in RecordIds |-> RecordOf(k[r], r)]
    /\ initial = heap
    /\ calls = <<>>
    /\ assigned = 0
    /\ answer = NoAnswer
    /\ registry = <<>>
    /\ runs = 0
    /\ outcome = NoOutcome

MergeFrom(self, other) ==
    /\ Len(calls) < MaxCalls
    /\ heap' = merge_from(heap, self, other)
    /\ calls' = Append(calls, <<self, other>>)
    /\ UNCHANGED <<initial, assigned, answer, registry, runs, outcome>>

Next == \E self \in RecordIds, other \in RecordIds : MergeFrom(self, other)

Spec == Init /\ [][Next]_vars

-----------------------------------------------------------------------------
(* The reporting methods.  One record, metadata, is constructed, has       *)
(* fields assigned (metadata.name = MetadataField(...)) and is asked for   *)
(* its placeholder and low-confidence fields; answer keeps the last        *)
(* method called, the record as it was at the call and the list returned.  *)

metadata == 0

AssignedFields ==
    {MetadataField(v, c, "source-assigned", None) : v \in {None, "value-assigned"}, c \in Confidence}

InitFields ==
    /\ \E k \in 0 .. Len(InputProfiles) :
           heap = [r \in RecordIds |-> IF r = metadata THEN RecordOf(k, r) ELSE ProjectMetadata]
    /\ initial = heap
    /\ calls = <<>>
    /\ assigned = 0
    /\ answer = NoAnswer
    /\ registry = <<>>
    /\ runs = 0
    /\ outcome = NoOutcome

AssignField(field_name, fld) ==
    /\ assigned < MaxAssignments
    /\ heap' = [heap EXCEPT ![metadata][field_name] = fld]
    /\ assigned' = assigned + 1
    /\ UNCHANGED <<initial, calls, answer, registry, runs, outcome>>

GetPlaceholderFields ==
    /\ answer' = [method |-> "get_placeholder_fields", record |-> heap[metadata],
                  result |-> get_placeholder_fields(heap[metadata])]
    /\ UNCHANGED <<heap, initial, calls, assigned, registry, runs, outcome>>

GetLowConfidenceFields ==
    /\ answer' = [method |-> "get_low_confidence_fields", record |-> heap[metadata],
                  result |-> get_low_confidence_fields(heap[metadata])]
    /\ UNCHANGED <<heap, initial, calls, assigned, registry, runs, outcome>>

NextFields ==
    \/ \E field_name \in FieldSet, fld \in AssignedFields : AssignField(field_name, fld)
    \/ GetPlaceholderFields
    \/ GetLowConfidenceFields

SpecFields == InitFields /\ [][NextFields]_vars

-----------------------------------------------------------------------------
(* Vocabulary of the properties *)

IsCall(self, other) == calls' = Append(calls, <<self, other>>)

Others == [j \in 1 .. Len(calls) |-> calls[j][2]]

(* Every call so far merged into the record self, never from self itself,  *)
(* so the merged records are still as they were constructed.               *)
OnlyReceiver(self) ==
    \A j \in 1 .. Len(calls) : calls[j][1] = self /\ calls[j][2] # self

(* r0, r1, ..., rn: the receiver followed by the merged records, in order  *)
Chain(self) == <<self>> \o Others

MaxWeight(seq, f) ==
    CHOOSE w \in {Weight(initial[seq[j]][f].confidence) : j \in 1 .. Len(seq)} :
        \A j \in 1 .. Len(seq) : Weight(initial[seq[j]][f].confidence) <= w

EarliestMax(seq, f) ==
    seq[CHOOSE j \in 1 .. Len(seq) :
            /\ Weight(initial[seq[j]][f].confidence) = MaxWeight(seq, f)
            /\ \A k \in 1 .. (j - 1) : Weight(initial[seq[k]][f].confidence) < MaxWeight(seq, f)]

(* the records whose fields can have reached r through the calls made:     *)
(* walking the calls backwards, the other of every call into such a record *)
RECURSIVE ContributorsFrom(_, _)
ContributorsFrom(set, j) ==
    IF j = 0 THEN set
    ELSE ContributorsFrom(IF calls[j][1] \in set THEN set \cup {calls[j][2]} ELSE set, j - 1)

Contributors(r) == ContributorsFrom({r}, Len(calls))

(* merging the records of seq, from position j on, into self one by one *)
RECURSIVE MergeAll(_, _, _, _)
MergeAll(h, self, seq, j) ==
    IF j > Len(seq) THEN h
    ELSE MergeAll(merge_from(h, self, seq[j]), self, seq, j + 1)

Orderings(n) ==
    {p \in [1 .. n -> 1 .. n] : \A j \in 1 .. n, k \in 1 .. n : j # k => p[j] # p[k]}

PairwiseDifferent(seq, f) ==
    \A j \in 1 .. Len(seq), k \in 1 .. Len(seq) :
        j # k => initial[seq[j]][f].confidence # initial[seq[k]][f].confidence

KeysOf(list, key) == {list[j][key] : j \in 1 .. Len(list)}

NoDuplicateKeys(list, key) ==
    \A j \in 1 .. Len(list), k \in 1 .. Len(list) : j # k => list[j][key] # list[k][key]

HasDuplicateKeys(list, key) == ~NoDuplicateKeys(list, key)

(* the entries of theirs, from position j on, whose key is neither in mine *)
(* nor carried by an earlier entry of theirs                               *)
RECURSIVE FirstSeen(_, _, _, _)
FirstSeen(mine, theirs, key, j) ==
    IF j > Len(theirs) THEN <<>>
    ELSE (IF /\ theirs[j][key] \notin KeysOf(mine, key)
             /\ \A k \in 1 .. (j - 1) : theirs[k][key] # theirs[j][key]
          THEN <<theirs[j]>> ELSE <<>>) \o FirstSeen(mine, theirs, key, j + 1)

IsPrefix(a, b) == Len(a) <= Len(b) /\ SubSeq(b, 1, Len(a)) = a

Suffix(b, n) == SubSeq(b, n + 1, Len(b))

InOrderOf(part, whole) ==
    \E m \in [1 .. Len(part) -> 1 .. Len(whole)] :
        /\ \A j \in 1 .. Len(part), k \in 1 .. Len(part) : j < k => m[j] < m[k]
        /\ \A j \in 1 .. Len(part) : part[j] = whole[m[j]]

-----------------------------------------------------------------------------
(* C1: self.merge_from(other) sets each of the 8 tracked scalar fields of  *)
(* self to other's field if and only if other's confidence weight is       *)
(* strictly greater than self's; otherwise the field stays as it was.      *)
C1_StrictlyGreaterReplaces ==
    [][\A self \in RecordIds, other \in RecordIds :
          IsCall(self, other) =>
              \A f \in FieldSet :
                  IF Weight(heap[other][f].confidence) > Weight(heap[self][f].confidence)
                  THEN heap'[self][f] = heap[other][f]
                  ELSE heap'[self][f] = heap[self][f]]_vars

(* a first call between two records that replaced one field and kept a    *)
(* different field of equal confidence                                     *)
C1_Witness ==
    /\ Len(calls) = 1
    /\ LET self == calls[1][1]
           other == calls[1][2]
       IN  /\ self # other
           /\ \E f \in FieldSet :
                  /\ Weight(initial[other][f].confidence) > Weight(initial[self][f].confidence)
                  /\ heap[self][f] = initial[other][f]
                  /\ heap[self][f] # initial[self][f]
           /\ \E g \in FieldSet :
                  /\ initial[other][g].confidence = initial[self][g].confidence
                  /\ initial[other][g] # initial[self][g]
                  /\ heap[self][g] = initial[self][g]

(* C2: after any sequence of merge_from calls every tracked scalar field   *)
(* of a record is, in all four components, the field of one single input   *)
(* record: its own initial field or that of a record merged into it.       *)
C2_FieldFromOneRecord ==
    \A r \in RecordIds : \A f \in FieldSet :
        \E q \in Contributors(r) : heap[r][f] = initial[q][f]

(* a record holding, after two calls, fields taken from two other records  *)
C2_Witness ==
    /\ Len(calls) >= 2
    /\ \E r \in RecordIds : \E f \in FieldSet, g \in FieldSet :
          \E q1 \in RecordIds \ {r}, q2 \in RecordIds \ {r} :
              /\ q1 # q2
              /\ heap[r][f] = initial[q1][f] /\ heap[r][f] # initial[r][f]
              /\ heap[r][f] # initial[q2][f]
              /\ heap[r][g] = initial[q2][g] /\ heap[r][g] # initial[r][g]
              /\ heap[r][g] # initial[q1][g]

(* C3: when r1..rn are merged in that order into r0, each tracked scalar   *)
(* field of the result is the whole field of the earliest record among     *)
(* r0, r1, ..., rn whose confidence for it is the maximum.                 *)
C3_EarliestMaximumWins ==
    \A self \in RecordIds :
        OnlyReceiver(self) =>
            \A f \in FieldSet : heap[self][f] = initial[EarliestMax(Chain(self), f)][f]

(* two different records merged into a third; for one field the maximum is *)
(* shared by two of the three (a tie), for another it is the last record's *)
C3_Witness ==
    /\ Len(calls) >= 2
    /\ \E self \in RecordIds :
          /\ OnlyReceiver(self)
          /\ calls[1][2] # calls[2][2]
          /\ \E f \in FieldSet :
                 \E j \in 1 .. Len(Chain(self)), k \in 1 .. Len(Chain(self)) :
                     /\ j < k
                     /\ Chain(self)[j] # Chain(self)[k]
                     /\ Weight(initial[Chain(self)[j]][f].confidence) = MaxWeight(Chain(self), f)
                     /\ Weight(initial[Chain(self)[k]][f].confidence) = MaxWeight(Chain(self), f)
                     /\ EarliestMax(Chain(self), f) = Chain(self)[j]
                     /\ heap[self][f] # initial[Chain(self)[k]][f]
          /\ \E g \in FieldSet : heap[self][g] = initial[calls[Len(calls)][2]][g]
                                 /\ heap[self][g] # initial[self][g]

(* C4: for records whose confidences for a tracked scalar field are        *)
(* pairwise different, merging them into a default record yields the same  *)
(* field whatever the order in which they are merged.                      *)
C4_OrderIndependentWhenDifferent ==
    \A self \in RecordIds :
        (initial[self] = ProjectMetadata /\ OnlyReceiver(self)) =>
            \A f \in FieldSet :
                PairwiseDifferent(Others, f) =>
                    \A p \in Orderings(Len(Others)) :
                        MergeAll(initial, self, [j \in 1 .. Len(Others) |-> Others[p[j]]], 1)[self][f]
                            = heap[self][f]

(* two records merged into a default one; for some field the first merged  *)
(* has the higher confidence, for another field the second has            *)
C4_Witness ==
    /\ Len(calls) = 2
    /\ \E self \in RecordIds :
          /\ initial[self] = ProjectMetadata /\ OnlyReceiver(self)
          /\ \E f \in FieldSet, g \in FieldSet :
                 /\ PairwiseDifferent(Others, f) /\ PairwiseDifferent(Others, g)
                 /\ Weight(initial[Others[1]][f].confidence) > Weight(initial[Others[2]][f].confidence)
                 /\ heap[self][f] = initial[Others[1]][f]
                 /\ Weight(initial[Others[2]][g].confidence) > Weight(initial[Others[1]][g].confidence)
                 /\ heap[self][g] = initial[Others[2]][g]

(* C5: a record that started as a default record has, after any sequence   *)
(* of merge_from calls with arbitrary records, no two dependencies, no two *)
(* dev_dependencies and no two authors of the same name and no two         *)
(* entry_points of the same path.                                          *)
C5_UniqueKeysFromDefault ==
    \A r \in RecordIds :
        initial[r] = ProjectMetadata =>
            \A attr \in ListSet : NoDuplicateKeys(heap[r][attr], KeyOf(attr))

(* a default record that received, in every list, entries from a record    *)
(* holding several entries with the same key                               *)
C5_Witness ==
    \E r \in RecordIds :
        /\ initial[r] = ProjectMetadata
        /\ \A attr \in ListSet :
               /\ heap[r][attr] # <<>>
               /\ \E j \in 1 .. Len(calls) :
                      /\ calls[j][1] = r
                      /\ HasDuplicateKeys(initial[calls[j][2]][attr], KeyOf(attr))

(* C6: for each list attribute, self.merge_from(other) appends an entry of *)
(* other exactly when no entry already in self has its key; an entry whose *)
(* key is present is dropped and the existing entry is kept, whatever the  *)
(* other attributes or the confidence of the two entries.                  *)
C6_AppendExactlyNewKeys ==
    [][\A self \in RecordIds, other \in RecordIds :
          IsCall(self, other) =>
              \A attr \in ListSet :
                  heap'[self][attr] =
                      heap[self][attr] \o FirstSeen(heap[self][attr], heap[other][attr], KeyOf(attr), 1)]_vars

(* a first call that appended an entry point and dropped another one whose *)
(* path self already had with a different confidence and type              *)
C6_Witness ==
    /\ Len(calls) = 1
    /\ LET self == calls[1][1]
           other == calls[1][2]
       IN  /\ self # other
           /\ Len(heap[self].entry_points) > Len(initial[self].entry_points)
           /\ \E j \in 1 .. Len(initial[self].entry_points), k \in 1 .. Len(initial[other].entry_points) :
                  /\ initial[self].entry_points[j].path = initial[other].entry_points[k].path
                  /\ initial[self].entry_points[j].confidence # initial[other].entry_points[k].confidence
                  /\ initial[self].entry_points[j].entry_type # initial[other].entry_points[k].entry_type
                  /\ heap[self].entry_points[j] = initial[self].entry_points[j]
           /\ \E j \in 1 .. Len(initial[self].dependencies), k \in 1 .. Len(initial[other].dependencies) :
                  /\ initial[self].dependencies[j].name = initial[other].dependencies[k].name
                  /\ initial[self].dependencies[j] # initial[other].dependencies[k]
                  /\ Len(heap[self].dependencies) = Len(initial[self].dependencies)

(* C7: merge_from never removes, reorders or modifies an entry already in  *)
(* the receiver's lists: each list before the call is a prefix of the list *)
(* after it, and the appended entries are in the order they have in other. *)
C7_ListsGrowAtTheEnd ==
    [][\A self \in RecordIds, other \in RecordIds :
          IsCall(self, other) =>
              \A attr \in ListSet :
                  /\ IsPrefix(heap[self][attr], heap'[self][attr])
                  /\ InOrderOf(Suffix(heap'[self][attr], Len(heap[self][attr])), heap[other][attr])]_vars

(* a first call that appended two entries behind an entry self had *)
C7_Witness ==
    /\ Len(calls) = 1
    /\ LET self == calls[1][1]
           other == calls[1][2]
       IN  /\ self # other
           /\ \E attr \in ListSet :
                  /\ initial[self][attr] # <<>>
                  /\ Len(heap[self][attr]) >= Len(initial[self][attr]) + 2

(* C8: for distinct records a and b, a.merge_from(b) changes no attribute  *)
(* of b, and no later merge_from into a changes b either: a call changes   *)
(* no record but its receiver.                                             *)
C8_OtherUntouched ==
    [][\A self \in RecordIds, other \in RecordIds :
          IsCall(self, other) =>
              \A r \in RecordIds \ {self} : heap'[r] = heap[r]]_vars

(* a was changed by a.merge_from(b) and by a later merge into a, and b is  *)
(* as it was constructed                                                   *)
C8_Witness ==
    /\ Len(calls) >= 2
    /\ LET a == calls[1][1]
           b == calls[1][2]
       IN  /\ a # b
           /\ calls[2][1] = a /\ calls[2][2] \notin {a, b}
           /\ heap[a] # initial[a]
           /\ heap[a] # merge_from(initial, a, b)[a]
           /\ initial[b] # ProjectMetadata
           /\ heap[b] = initial[b]

(* C9: a scalar field of other whose value is None never replaces the      *)
(* receiver's field in merge_from, whatever confidence that field carries. *)
C9_NoneNeverReplaces ==
    [][\A self \in RecordIds, other \in RecordIds :
          IsCall(self, other) =>
              \A f \in FieldSet :
                  heap[other][f].value = None => heap'[self][f] = heap[self][f]]_vars

(* C10: r.merge_from(r) leaves every attribute of r unchanged: scalar      *)
(* fields, the four lists, flags, file_count and extraction_warnings.      *)
C10_SelfMergeChangesNothing ==
    [][\A r \in RecordIds : IsCall(r, r) => heap'[r] = heap[r]]_vars

(* C11 (as claimed): for distinct records a and b, calling a.merge_from(b) *)
(* a second time leaves a exactly as it was after the first call, in every *)
(* attribute.                                                              *)
C11_RepeatChangesNothing ==
    [][\A a \in RecordIds, b \in RecordIds :
          (a # b /\ Len(calls) >= 1 /\ calls[Len(calls)] = <<a, b>> /\ IsCall(a, b)) =>
              heap'[a] = heap[a]]_vars

(* C11 (amended): calling a.merge_from(b) a second time leaves a's scalar  *)
(* fields, lists, flags and file_count as they were after the first call   *)
(* and appends b's extraction_warnings to a's once more.                   *)
C11_RepeatOnlyAppendsWarnings ==
    [][\A a \in RecordIds, b \in RecordIds :
          (a # b /\ Len(calls) >= 1 /\ calls[Len(calls)] = <<a, b>> /\ IsCall(a, b)) =>
              heap'[a] = [heap[a] EXCEPT !.extraction_warnings = @ \o heap[b].extraction_warnings]]_vars

(* a.merge_from(b) was called twice; the first call changed fields and     *)
(* lists of a, and b carries warnings, which a now holds twice             *)
C11_Witness ==
    /\ Len(calls) = 2
    /\ calls[1] = calls[2]
    /\ LET a == calls[1][1]
           b == calls[1][2]
       IN  /\ a # b
           /\ \E f \in FieldSet : heap[a][f] # initial[a][f]
           /\ \E attr \in ListSet : Len(heap[a][attr]) > Len(initial[a][attr])
           /\ initial[b].extraction_warnings # <<>>
           /\ heap[a].extraction_warnings =
                  initial[a].extraction_warnings \o initial[b].extraction_warnings
                                                 \o initial[b].extraction_warnings

(* C12: merging a default record (ProjectMetadata()) into any record       *)
(* leaves that record unchanged in every attribute.                        *)
C12_DefaultChangesNothing ==
    [][\A self \in RecordIds, other \in RecordIds :
          (IsCall(self, other) /\ heap[other] = ProjectMetadata) => heap'[self] = heap[self]]_vars

(* a default record was merged into a populated record that has fields of  *)
(* Unknown confidence differing from the default ones                      *)
C12_Witness ==
    /\ Len(calls) = 1
    /\ LET self == calls[1][1]
           other == calls[1][2]
       IN  /\ initial[other] = ProjectMetadata
           /\ initial[self] # ProjectMetadata
           /\ \E f \in FieldSet : /\ initial[self][f].confidence = "UNKNOWN"
                                  /\ initial[self][f] # DefaultField(f)
           /\ initial[self].extraction_warnings # <<>>
           /\ heap[self] = initial[self]

(* the merged records of the calls made, taken in the order p *)
Reordered(p) == [j \in 1 .. Len(Others) |-> Others[p[j]]]

EntriesOf(list) == {list[j] : j \in 1 .. Len(list)}

(* C13 (as claimed): merging the same records into a default record in any *)
(* order yields the same entries in authors, dependencies,                 *)
(* dev_dependencies and entry_points and the same flags.                   *)
C13_SameEntriesInAnyOrder ==
    \A self \in RecordIds :
        (initial[self] = ProjectMetadata /\ OnlyReceiver(self)) =>
            \A p \in Orderings(Len(Others)) :
                LET alt == MergeAll(initial, self, Reordered(p), 1)[self]
                IN  /\ \A attr \in ListSet : EntriesOf(alt[attr]) = EntriesOf(heap[self][attr])
                    /\ \A flag \in FlagSet : alt[flag] = heap[self][flag]

(* C13 (amended): merging the same records into a default record in any    *)
(* order yields the same keys (names, paths) in each of the four lists,    *)
(* the same flags and the same file_count; the entry kept for a key that   *)
(* several records carry is the one of the record merged first.            *)
C13_SameKeysAndFlagsInAnyOrder ==
    \A self \in RecordIds :
        (initial[self] = ProjectMetadata /\ OnlyReceiver(self)) =>
            \A p \in Orderings(Len(Others)) :
                LET alt == MergeAll(initial, self, Reordered(p), 1)[self]
                IN  /\ \A attr \in ListSet :
                           KeysOf(alt[attr], KeyOf(attr)) = KeysOf(heap[self][attr], KeyOf(attr))
                    /\ \A flag \in FlagSet : alt[flag] = heap[self][flag]
                    /\ alt.file_count = heap[self].file_count

(* two records with different flags and different entries for one key were *)
(* merged into a default record, which kept the entry of the first         *)
C13_Witness ==
    /\ Len(calls) = 2
    /\ \E self \in RecordIds :
          /\ initial[self] = ProjectMetadata /\ OnlyReceiver(self)
          /\ Others[1] # Others[2]
          /\ \E flag \in FlagSet : /\ initial[Others[1]][flag]
                                   /\ ~initial[Others[2]][flag]
                                   /\ heap[self][flag]
          /\ \E flag \in FlagSet : /\ ~initial[Others[1]][flag]
                                   /\ initial[Others[2]][flag]
                                   /\ heap[self][flag]
          /\ \E attr \in ListSet :
                 \E j \in 1 .. Len(initial[Others[1]][attr]), k \in 1 .. Len(initial[Others[2]][attr]) :
                     /\ initial[Others[1]][attr][j][KeyOf(attr)] = initial[Others[2]][attr][k][KeyOf(attr)]
                     /\ initial[Others[1]][attr][j] \in EntriesOf(heap[self][attr])
                     /\ initial[Others[2]][attr][k] \notin EntriesOf(heap[self][attr])

(* C14: after a merge each of has_tests, has_docs_folder, has_examples and *)
(* has_ci_config of the receiver equals (flag before) OR (other's flag),   *)
(* and no flag of any record that is True becomes False.                   *)
C14_FlagsAreOred ==
    [][/\ \A self \in RecordIds, other \in RecordIds :
              IsCall(self, other) =>
                  \A flag \in FlagSet : heap'[self][flag] = (heap[self][flag] \/ heap[other][flag])
       /\ \A r \in RecordIds : \A flag \in FlagSet : heap[r][flag] => heap'[r][flag]]_vars

(* a flag the receiver got from the first merged record is still True      *)
(* after merging a second record whose flag is False                       *)
C14_Witness ==
    /\ Len(calls) = 2
    /\ \E self \in RecordIds :
          /\ OnlyReceiver(self)
          /\ \E flag \in FlagSet : /\ ~initial[self][flag]
                                   /\ initial[Others[1]][flag]
                                   /\ ~initial[Others[2]][flag]
                                   /\ heap[self][flag]

MaxFileCount(seq) ==
    CHOOSE m \in {initial[seq[j]].file_count : j \in 1 .. Len(seq)} :
        \A j \in 1 .. Len(seq) : initial[seq[j]].file_count <= m

(* C15: after any sequence of merge_from calls the receiver's file_count   *)
(* equals the maximum of its initial file_count and the file_count of      *)
(* every merged record, and no merge decreases a file_count.               *)
C15_FileCountIsMaximum ==
    [][\A self \in RecordIds :
          /\ heap'[self].file_count >= heap[self].file_count
          /\ (OnlyReceiver(self))' => (heap[self].file_count = MaxFileCount(Chain(self)))']_vars

(* the first merged record raised the receiver's file_count and the second *)
(* one, with a lower file_count, did not lower it                          *)
C15_Witness ==
    /\ Len(calls) = 2
    /\ \E self \in RecordIds :
          /\ OnlyReceiver(self)
          /\ initial[Others[1]].file_count > initial[self].file_count
          /\ initial[Others[2]].file_count < initial[Others[1]].file_count
          /\ heap[self].file_count = initial[Others[1]].file_count

(* C16: for distinct records, self.merge_from(other) makes                 *)
(* self.extraction_warnings its previous content followed by all of        *)
(* other.extraction_warnings in order, with no deduplication.              *)
C16_WarningsAreConcatenated ==
    [][\A self \in RecordIds, other \in RecordIds :
          (IsCall(self, other) /\ self # other) =>
              heap'[self].extraction_warnings =
                  heap[self].extraction_warnings \o heap[other].extraction_warnings]_vars

(* a receiver with warnings of its own holds one warning twice after two   *)
(* merges from other records                                               *)
C16_Witness ==
    /\ Len(calls) = 2
    /\ \E self \in RecordIds :
          /\ OnlyReceiver(self)
          /\ initial[self].extraction_warnings # <<>>
          /\ IsPrefix(initial[self].extraction_warnings, heap[self].extraction_warnings)
          /\ \E j \in 1 .. Len(heap[self].extraction_warnings),
                k \in 1 .. Len(heap[self].extraction_warnings) :
                 j < k /\ heap[self].extraction_warnings[j] = heap[self].extraction_warnings[k]


-----------------------------------------------------------------------------
(* The extractor registry.  A discovery result is the files found, their   *)
(* number and the discovery warnings; unparsable names the files whose     *)
(* content cannot be read or parsed, mistyped the files that parse but     *)
(* hold a value of another type than the extractor expects.  An extractor  *)
(* instance is its class name and its _warnings buffer; its position in    *)
(* the registry stands for the object.                                     *)

Discoveries ==
    { DiscoveryResult,
      [files |-> {"pyproject.toml", "setup.py", "main.py"}, unparsable |-> {}, mistyped |-> {},
       total_file_count |-> 3, warnings |-> <<"Skipped large file: data.bin">>],
      [files |-> {"package.json", "index.js", "LICENSE"}, unparsable |-> {"package.json", "LICENSE"},
       mistyped |-> {}, total_file_count |-> 3, warnings |-> <<>>],
      [files |-> {"pyproject.toml", "setup.py", "package.json", "LICENSE"}, unparsable |-> {"pyproject.toml"},
       mistyped |-> {},
       total_file_count |-> 4, warnings |-> <<"Permission denied: docs", "Skipped large file: data.bin">>],
      [files |-> {"package.json", "main.py"}, unparsable |-> {}, mistyped |-> {"package.json"},
       total_file_count |-> 2, warnings |-> <<"Skipped large file: data.bin">>] }

ExtractorNames == {"Generic", "Python", "JavaScript", "CodeAnalyzer"}

BaseExtractor(name) == [name |-> name, _warnings |-> <<>>]

add_warning(name, message) == "[" \o name \o "] " \o message

can_handle(name, discovery_result) ==
    CASE name = "Generic" -> TRUE
      [] name = "Python" -> discovery_result.files \cap {"pyproject.toml", "setup.py", "main.py"} # {}
      [] name = "JavaScript" -> discovery_result.files \cap {"package.json", "index.js"} # {}
      [] name = "CodeAnalyzer" -> TRUE

(* self.merge_from(other) on two records of their own, both complete       *)
(* objects when the call is made; the value is self after the call         *)
Merged(self, other) ==
    LET h == [self |-> self, other |-> other]
    IN  IF DOMAIN h = {"self", "other"} THEN merge_from(h, "self", "other").self ELSE self

(* how a call ends: it returns a record, or an exception leaves it; either *)
(* way with the warnings it recorded with add_warning                      *)
Return(result, warnings) == [raised |-> FALSE, metadata |-> result, warnings |-> warnings]

Raise(warnings) == [raised |-> TRUE, warnings |-> warnings]

(* what one manifest file yields: the record parsed from it; a default     *)
(* record and a warning when it cannot be read or parsed; an exception     *)
(* when it parses and a value in it has another type than expected         *)
Parsed_intoRecord(name, discovery_result, file, k, r) ==
    IF file \notin discovery_result.files
        THEN Return(ProjectMetadata, <<>>)
    ELSE IF file \in discovery_result.unparsable
        THEN Return([ProjectMetadata EXCEPT
                        !.extraction_warnings = <<add_warning(name, "Failed to parse " \o file)>>],
                    <<>>)
    ELSE IF file \in discovery_result.mistyped
        THEN Raise(<<>>)
    ELSE Return(InputRecord(InputProfiles[k], r), <<>>)

Parsed(name, discovery_result, file, k, r) ==
    IF file \notin discovery_result.files
        THEN Return(ProjectMetadata, <<>>)
    ELSE IF file \in discovery_result.unparsable
        THEN Return(ProjectMetadata, <<add_warning(name, "Failed to parse " \o file)>>)
    ELSE IF file \in discovery_result.mistyped
        THEN Raise(<<>>)
    ELSE Return(InputRecord(InputProfiles[k], r), <<>>)

GenericExtract(discovery_result) ==
    LET unread == "LICENSE" \in discovery_result.files \cap discovery_result.unparsable
        found == "LICENSE" \in discovery_result.files \ discovery_result.unparsable
    IN  Return([ProjectMetadata EXCEPT
                   !.name = MetadataField("repo", "WEAK", "Directory name",
                                          "Inferred from repository directory name"),
                   !.license = IF found
                               THEN MetadataField("MIT", "STRONG", "LICENSE",
                                                  "Detected from LICENSE file content")
                               ELSE @],
               IF unread THEN <<add_warning("Generic", "Could not read file LICENSE")>>
               ELSE <<>>)

PythonExtract(discovery_result) ==
    LET language == [ProjectMetadata EXCEPT
                        !.primary_language = MetadataField("Python", "STRONG", "File extension analysis",
                                                           "Python source files detected")]
        pyproject == Parsed("Python", discovery_result, "pyproject.toml", 2, 11)
        setup_py == Parsed("Python", discovery_result, "setup.py", 1, 12)
    IN  IF pyproject.raised THEN Raise(pyproject.warnings)
        ELSE IF setup_py.raised THEN Raise(pyproject.warnings \o setup_py.warnings)
        ELSE Return(Merged(Merged(language, pyproject.metadata), setup_py.metadata),
                    pyproject.warnings \o setup_py.warnings)

JavaScriptExtract(discovery_result) ==
    LET language == [ProjectMetadata EXCEPT
                        !.primary_language = MetadataField("JavaScript", "STRONG",
                                                           "File extension analysis", None)]
        pkg == Parsed("JavaScript", discovery_result, "package.json", 3, 21)
    IN  IF pkg.raised THEN Raise(pkg.warnings)
        ELSE Return(Merged(language, pkg.metadata), pkg.warnings)

CodeAnalyzerExtract(discovery_result) ==
    LET sources == discovery_result.files \cap {"main.py", "index.js"}
    IN  Return([ProjectMetadata EXCEPT
                   !.primary_language = IF sources # {}
                                        THEN MetadataField(IF "main.py" \in sources THEN "Python" ELSE "JavaScript",
                                                           "REASONABLE", "File extension analysis", "Based on 1 source files")
                                        ELSE @,
                   !.dependencies = IF "main.py" \in sources
                                    THEN <<Dependency("requests", None, FALSE, "Code import analysis")>>
                                    ELSE @,
                   !.extraction_warnings = IF "main.py" \in sources
                                           THEN <<"Detected frameworks: Flask">>
                                           ELSE @,
                   !.entry_points = IF "main.py" \in sources
                                    THEN <<EntryPoint("main.py", "script", None, "REASONABLE", None)>>
                                    ELSE @,
                   !.name = MetadataField("repo", "WEAK", "Directory name",
                                          "Derived from project directory")],
               <<>>)

(* extractor.extract(discovery_result, root_path): the record returned, or *)
(* the exception, and the warnings the call records with add_warning       *)
extract(name, discovery_result) ==
    CASE name = "Generic" -> GenericExtract(discovery_result)
      [] name = "Python" -> PythonExtract(discovery_result)
      [] name = "JavaScript" -> JavaScriptExtract(discovery_result)
      [] name = "CodeAnalyzer" -> CodeAnalyzerExtract(discovery_result)

RECURSIVE Applicable(_, _, _)
Applicable(extractors, discovery_result, i) ==
    IF i > Len(extractors) THEN <<>>
    ELSE IF can_handle(extractors[i].name, discovery_result)
         THEN <<i>> \o Applicable(extractors, discovery_result, i + 1)
         ELSE Applicable(extractors, discovery_result, i + 1)

get_applicable_extractors_all(extractors, discovery_result) ==
    [i \in 1 .. Len(extractors) |-> i]

get_applicable_extractors_lastFirst(extractors, discovery_result) ==
    LET applicable == Applicable(extractors, discovery_result, 1)
    IN  [i \in 1 .. Len(applicable) |-> applicable[Len(applicable) + 1 - i]]

get_applicable_extractors(extractors, discovery_result) ==
    Applicable(extractors, discovery_result, 1)

(* one round of the loop of extract_all: clear_warnings, extract,          *)
(* merged.merge_from(result), then extend with extractor.get_warnings();   *)
(* an exception of extract leaves the round after the first two            *)
RunExtractor_uncleared(merged, extractors, discovery_result, extractor) ==
    LET call == extract(extractors[extractor].name, discovery_result)
        after == [extractors EXCEPT ![extractor]._warnings = @ \o call.warnings]
    IN  IF call.raised THEN [raised |-> TRUE, extractors |-> after]
        ELSE [raised |-> FALSE,
              merged |-> [Merged(merged, call.metadata) EXCEPT
                             !.extraction_warnings = @ \o after[extractor]._warnings],
              extractors |-> after,
              result |-> call.metadata]

RunExtractor_withoutBuffer(merged, extractors, discovery_result, extractor) ==
    LET call == extract(extractors[extractor].name, discovery_result)
        after == [extractors EXCEPT ![extractor]._warnings = call.warnings]
    IN  IF call.raised THEN [raised |-> TRUE, extractors |-> after]
        ELSE [raised |-> FALSE,
              merged |-> Merged(merged, call.metadata),
              extractors |-> after,
              result |-> call.metadata]

RunExtractor_swallowing(merged, extractors, discovery_result, extractor) ==
    LET call == extract(extractors[extractor].name, discovery_result)
        after == [extractors EXCEPT ![extractor]._warnings = call.warnings]
        result == IF call.raised THEN ProjectMetadata ELSE call.metadata
    IN  [raised |-> FALSE,
         merged |-> [Merged(merged, result) EXCEPT
                        !.extraction_warnings = @ \o after[extractor]._warnings],
         extractors |-> after,
         result |-> result]

RunExtractor(merged, extractors, discovery_result, extractor) ==
    LET cleared == [extractors EXCEPT ![extractor]._warnings = <<>>]
        call == extract(extractors[extractor].name, discovery_result)
        after == [cleared EXCEPT ![extractor]._warnings = @ \o call.warnings]
    IN  IF call.raised THEN [raised |-> TRUE, extractors |-> after]
        ELSE [raised |-> FALSE,
              merged |-> [Merged(merged, call.metadata) EXCEPT
                             !.extraction_warnings = @ \o after[extractor]._warnings],
              extractors |-> after,
              result |-> call.metadata]

(* the loop state after one more round *)
Advance(done, extractor, round) ==
    [raised |-> round.raised,
     merged |-> IF round.raised THEN done.merged ELSE round.merged,
     extractors |-> round.extractors,
     ran |-> Append(done.ran, extractor),
     results |-> IF round.raised THEN done.results ELSE Append(done.results, round.result)]

RECURSIVE ExtractLoop(_, _, _, _)
ExtractLoop(done, discovery_result, applicable, i) ==
    IF i > Len(applicable) \/ done.raised THEN done
    ELSE ExtractLoop(Advance(done, applicable[i],
                             RunExtractor(done.merged, done.extractors, discovery_result, applicable[i])),
                     discovery_result, applicable, i + 1)

extract_all(extractors, discovery_result) ==
    LET merged == [ProjectMetadata EXCEPT !.file_count = discovery_result.total_file_count]
        applicable == get_applicable_extractors(extractors, discovery_result)
        done == ExtractLoop([raised |-> FALSE, merged |-> merged, extractors |-> extractors,
                             ran |-> <<>>, results |-> <<>>],
                            discovery_result, applicable, 1)
    IN  IF done.raised
        THEN [raised |-> TRUE, extractors |-> done.extractors,
              ran |-> done.ran, results |-> done.results]
        ELSE [raised |-> FALSE,
              merged |-> [done.merged EXCEPT !.extraction_warnings = @ \o discovery_result.warnings],
              extractors |-> done.extractors,
              ran |-> done.ran, results |-> done.results]

InitRegistry ==
    /\ heap = [r \in RecordIds |-> ProjectMetadata]
    /\ initial = heap
    /\ calls = <<>>
    /\ assigned = 0
    /\ answer = NoAnswer
    /\ registry = <<>>
    /\ runs = 0
    /\ outcome = NoOutcome

Register(name) ==
    /\ Len(registry) < MaxExtractors
    /\ registry' = Append(registry, BaseExtractor(name))
    /\ UNCHANGED <<heap, initial, calls, assigned, answer, runs, outcome>>

(* what outcome keeps of a call of extract_all that ended as done *)
Recorded(extractors, discovery_result, done) ==
    LET call == [discovery |-> discovery_result,
                 extractors |-> [i \in 1 .. Len(extractors) |-> extractors[i].name],
                 buffers |-> [i \in 1 .. Len(extractors) |-> extractors[i]._warnings],
                 ran |-> done.ran, results |-> done.results, raised |-> done.raised]
    IN  IF done.raised THEN call
        ELSE [f \in DOMAIN call \cup {"merged"} |-> IF f = "merged" THEN done.merged ELSE call[f]]

ExtractAll(discovery_result) ==
    /\ runs < MaxRuns
    /\ registry' = extract_all(registry, discovery_result).extractors
    /\ outcome' = Recorded(registry, discovery_result, extract_all(registry, discovery_result))
    /\ runs' = runs + 1
    /\ UNCHANGED <<heap, initial, calls, assigned, answer>>

NextRegistry ==
    \/ \E name \in ExtractorNames : Register(name)
    \/ \E discovery_result \in Discoveries : ExtractAll(discovery_result)

SpecRegistry == InitRegistry /\ [][NextRegistry]_vars

-----------------------------------------------------------------------------
(* Vocabulary of the reporting claims *)

Names(list) == {list[i] : i \in 1 .. Len(list)}

(* a default record in which exactly the field f has been assigned *)
DefaultExcept(rec, f) == rec = [ProjectMetadata EXCEPT ![f] = rec[f]]

AskedPlaceholders == answer.method = "get_placeholder_fields"

AskedLowConfidence == answer.method = "get_low_confidence_fields"

BelowReasonable == {"WEAK", "GUESS", "UNKNOWN"}

(* position of a name in the fixed field order *)
PositionOf(f) == CHOOSE i \in 1 .. Len(FIELD_NAMES) : FIELD_NAMES[i] = f

(* C17, as stated: get_placeholder_fields on a default record returns all  *)
(* 8 field names; after one field is set to a field with non-Unknown       *)
(* confidence, that name is no longer in the result and the other 7 are.   *)
C17_NonUnknownLeavesTheResult ==
    AskedPlaceholders =>
        /\ answer.record = ProjectMetadata => answer.result = FIELD_NAMES
        /\ \A f \in FieldSet :
              DefaultExcept(answer.record, f) /\ answer.record[f].confidence # "UNKNOWN"
                  => Names(answer.result) = FieldSet \ {f}

(* C17, amended: get_placeholder_fields on a default record returns all 8  *)
(* field names; after one field is set to a field with a value that is not *)
(* None and a non-Unknown confidence, that name is no longer in the result *)
(* and the other 7 still are; set to a field whose value is None, the name *)
(* stays in the result whatever the confidence.                            *)
C17_ValuedNonUnknownLeavesTheResult ==
    AskedPlaceholders =>
        /\ answer.record = ProjectMetadata => answer.result = FIELD_NAMES
        /\ \A f \in FieldSet :
              DefaultExcept(answer.record, f) =>
                  IF answer.record[f].value # None /\ answer.record[f].confidence # "UNKNOWN"
                  THEN Names(answer.result) = FieldSet \ {f}
                  ELSE Names(answer.result) = FieldSet

C17_Witness ==
    /\ AskedPlaceholders
    /\ assigned = 1
    /\ DefaultExcept(answer.record, "license")
    /\ answer.record["license"].value = None
    /\ answer.record["license"].confidence = "STRONG"
    /\ Len(answer.result) = 8

(* C18: get_low_confidence_fields returns, in the fixed field order,       *)
(* exactly the (name, confidence) pairs of the fields whose confidence is  *)
(* WEAK, GUESS or UNKNOWN; a field at REASONABLE, STRONG or EXPLICIT is    *)
(* never returned.                                                         *)
C18_LowConfidencePairsInOrder ==
    AskedLowConfidence =>
        /\ \A i \in 1 .. Len(answer.result) :
              /\ answer.result[i][1] \in FieldSet
              /\ answer.result[i][2] = answer.record[answer.result[i][1]].confidence
              /\ answer.result[i][2] \in BelowReasonable
        /\ \A f \in FieldSet :
              answer.record[f].confidence \in BelowReasonable
                  => \E i \in 1 .. Len(answer.result) : answer.result[i][1] = f
        /\ \A i, j \in 1 .. Len(answer.result) :
              i < j => PositionOf(answer.result[i][1]) < PositionOf(answer.result[j][1])

C18_Witness ==
    /\ AskedLowConfidence
    /\ \E f \in FieldSet : answer.record[f].confidence = "REASONABLE"
    /\ \E f \in FieldSet : answer.record[f].confidence = "WEAK"
    /\ \E f \in FieldSet : answer.record[f].confidence = "EXPLICIT"
    /\ Len(answer.result) \in 2 .. 7


-----------------------------------------------------------------------------
(* Vocabulary of the registry claims *)

(* extract_all has been called and has returned a record *)
Extracted == runs >= 1 /\ ~outcome.raised

Handlers(names, discovery_result) ==
    {i \in 1 .. Len(names) : can_handle(names[i], discovery_result)}

Increasing(seq) == \A i, j \in 1 .. Len(seq) : i < j => seq[i] < seq[j]

(* the records the extractors at the given registry positions return *)
OutputsOf(names, positions, discovery_result) ==
    [i \in 1 .. Len(positions) |-> extract(names[positions[i]], discovery_result).metadata]

(* base.merge_from(outputs[j]), base.merge_from(outputs[j + 1]), ... *)
RECURSIVE FoldFrom(_, _, _)
FoldFrom(base, outputs, j) ==
    IF j > Len(outputs) THEN base
    ELSE FoldFrom(Merged(base, outputs[j]), outputs, j + 1)

SameTracked(a, b) ==
    \A attr \in FieldSet \cup ListSet \cup FlagSet : a[attr] = b[attr]

(* C19: extract_all runs exactly the extractors whose can_handle is true,  *)
(* in registration order, and its result equals - in tracked scalar        *)
(* fields, lists and flags - the first applicable extractor's output with  *)
(* each later applicable extractor's output merged into it in              *)
(* registration order.                                                     *)
C19_FoldInRegistrationOrder ==
    Extracted =>
        LET outputs == OutputsOf(outcome.extractors, outcome.ran, outcome.discovery)
        IN  /\ Increasing(outcome.ran)
            /\ {outcome.ran[i] : i \in 1 .. Len(outcome.ran)}
                   = Handlers(outcome.extractors, outcome.discovery)
            /\ outcome.ran # <<>> => SameTracked(outcome.merged, FoldFrom(outputs[1], outputs, 2))

C19_Witness ==
    /\ Extracted
    /\ outcome.extractors = <<"Generic", "JavaScript", "Python">>
    /\ outcome.ran = <<1, 3>>
    /\ outcome.merged.name.confidence = "REASONABLE"
    /\ Len(outcome.merged.dependencies) = 2

(* C20: when no registered extractor applies (an empty registry included), *)
(* extract_all returns a record whose 8 tracked scalar fields are          *)
(* Unknown-confidence placeholders, whose four lists are empty and whose   *)
(* flags are all False.                                                    *)
C20_NothingApplicableGivesPlaceholders ==
    Extracted /\ Handlers(outcome.extractors, outcome.discovery) = {} =>
        /\ \A f \in FieldSet :
              /\ outcome.merged[f].confidence = "UNKNOWN"
              /\ outcome.merged[f].value = None
              /\ is_placeholder(outcome.merged[f])
        /\ \A attr \in ListSet : outcome.merged[attr] = <<>>
        /\ \A flag \in FlagSet : outcome.merged[flag] = FALSE

C20_Witness ==
    /\ Extracted
    /\ outcome.extractors = <<"Python", "JavaScript">>
    /\ outcome.discovery = DiscoveryResult
    /\ outcome.ran = <<>>
    /\ get_placeholder_fields(outcome.merged) = FIELD_NAMES


-----------------------------------------------------------------------------
(* Confidence and placeholders across merge_from calls *)

WeightOf(rec, f) == Weight(rec[f].confidence)

(* C28: across any sequence of merge_from calls the confidence weight of   *)
(* each tracked scalar field of the receiver never decreases from one call *)
(* to the next, and after the calls it equals the maximum of that field's  *)
(* confidence over the receiver's initial record and all merged records.   *)
C28_ConfidenceOnlyRises ==
    [][\A self \in RecordIds, f \in FieldSet :
          /\ WeightOf(heap'[self], f) >= WeightOf(heap[self], f)
          /\ \A other \in RecordIds :
                IsCall(self, other) =>
                    /\ WeightOf(heap'[self], f) >= WeightOf(heap[other], f)
                    /\ WeightOf(heap'[self], f) \in {WeightOf(heap[self], f), WeightOf(heap[other], f)}
          /\ (OnlyReceiver(self))' => (WeightOf(heap[self], f) = MaxWeight(Chain(self), f))']_vars

(* the first merged record raised a field of the receiver and the second,  *)
(* of lower confidence for that field, did not lower it again              *)
C28_Witness ==
    /\ Len(calls) = 2
    /\ \E self \in RecordIds, f \in FieldSet :
          /\ OnlyReceiver(self)
          /\ WeightOf(initial[Others[1]], f) > WeightOf(initial[self], f)
          /\ WeightOf(initial[Others[2]], f) < WeightOf(initial[Others[1]], f)
          /\ WeightOf(initial[Others[2]], f) > WeightOf(initial[self], f)
          /\ WeightOf(heap[self], f) = WeightOf(initial[Others[1]], f)

(* C29: merge_from never turns a non-placeholder scalar field of the       *)
(* receiver into a placeholder: the names get_placeholder_fields returns   *)
(* after self.merge_from(other) are among those it returned before.        *)
C29_NoNewPlaceholders ==
    [][\A self \in RecordIds, other \in RecordIds :
          IsCall(self, other) =>
              Names(get_placeholder_fields(heap'[self])) \subseteq Names(get_placeholder_fields(heap[self]))]_vars


-----------------------------------------------------------------------------
(* Warnings of extract_all *)

(* for the extractors at the given registry positions, from position j on: *)
(* the warnings of the record each returns followed by those it records    *)
(* with add_warning during the call                                        *)
RECURSIVE WarningsOf(_, _, _, _)
WarningsOf(names, positions, discovery_result, j) ==
    IF j > Len(positions) THEN <<>>
    ELSE extract(names[positions[j]], discovery_result).metadata.extraction_warnings
         \o extract(names[positions[j]], discovery_result).warnings
         \o WarningsOf(names, positions, discovery_result, j + 1)

(* C21: the extraction_warnings of the record extract_all returns are, for *)
(* each applicable extractor in registration order, its output record's    *)
(* warnings then the warnings it recorded during this call, and the        *)
(* discovery warnings last; nothing else and nothing twice.                *)
C21_WarningsInOrder ==
    Extracted =>
        outcome.merged.extraction_warnings
            = WarningsOf(outcome.extractors, outcome.ran, outcome.discovery, 1)
              \o outcome.discovery.warnings

(* one extractor returned warnings in its record and recorded one of its   *)
(* own, a second extractor ran after it, and discovery had warnings        *)
C21_Witness ==
    /\ Extracted
    /\ Len(outcome.ran) >= 2
    /\ outcome.discovery.warnings # <<>>
    /\ LET first == extract(outcome.extractors[outcome.ran[1]], outcome.discovery)
       IN  /\ first.metadata.extraction_warnings # <<>>
           /\ first.warnings # <<>>
    /\ extract(outcome.extractors[outcome.ran[2]], outcome.discovery).metadata.extraction_warnings # <<>>

(* the warnings in the buffers of the extractors the call ran, as the call *)
(* found them: recorded during earlier calls                               *)
Stale ==
    UNION {Names(outcome.buffers[outcome.ran[j]]) : j \in 1 .. Len(outcome.ran)}

(* the warnings the extractors record with add_warning during the call *)
Fresh ==
    UNION {Names(extract(outcome.extractors[outcome.ran[j]], outcome.discovery).warnings) :
               j \in 1 .. Len(outcome.ran)}

Occurrences(list, w) == Cardinality({i \in 1 .. Len(list) : list[i] = w})

(* C22: over any sequence of extract_all calls on one registry, the record *)
(* a call returns contains no warning that an extractor recorded during an *)
(* earlier call: a warning left in a buffer by an earlier call appears in  *)
(* the record only as often as this call produced it itself, and after the *)
(* call the buffer of every extractor run holds this call's warnings only. *)
C22_NoWarningFromEarlierCall ==
    Extracted =>
        /\ \A w \in Stale :
              Occurrences(outcome.merged.extraction_warnings, w)
                  = Occurrences(WarningsOf(outcome.extractors, outcome.ran, outcome.discovery, 1)
                                \o outcome.discovery.warnings, w)
        /\ \A w \in Stale \ Fresh :
              \A k \in 1 .. Len(outcome.merged.extraction_warnings) :
                  outcome.merged.extraction_warnings[k] # w
        /\ \A j \in 1 .. Len(outcome.ran) :
              registry[outcome.ran[j]]._warnings
                  = extract(outcome.extractors[outcome.ran[j]], outcome.discovery).warnings

(* the second call ran an extractor whose buffer still held a warning of   *)
(* the first call, and that warning is not in the record it returned       *)
C22_Witness ==
    /\ runs = 2
    /\ Stale \ Fresh # {}
    /\ Fresh # {}
    /\ Len(outcome.ran) >= 2
    /\ \A w \in Stale \ Fresh : Occurrences(outcome.merged.extraction_warnings, w) = 0

-----------------------------------------------------------------------------
(* Failures inside extract *)

(* extract_all has been called *)
Called == runs >= 1

(* the files an extractor reads and parses *)
Manifests(name) ==
    CASE name = "Generic" -> {"LICENSE"}
      [] name = "Python" -> {"pyproject.toml", "setup.py"}
      [] name = "JavaScript" -> {"package.json"}
      [] name = "CodeAnalyzer" -> {}

(* the warning that describes the failure on a file *)
FailureWarning(name, file) ==
    IF name = "Generic" THEN add_warning(name, "Could not read file " \o file)
    ELSE add_warning(name, "Failed to parse " \o file)

RanName(j) == outcome.extractors[outcome.ran[j]]

(* the unreadable or unparsable files the j-th extractor run has met *)
Failures(j) == Manifests(RanName(j)) \cap outcome.discovery.files \cap outcome.discovery.unparsable

(* the same discovery result without the files that cannot be parsed *)
Readable(discovery_result) ==
    [discovery_result EXCEPT !.files = @ \ discovery_result.unparsable, !.unparsable = {}]

Raisers(names, discovery_result) ==
    {i \in Handlers(names, discovery_result) : extract(names[i], discovery_result).raised}

First(positions) == CHOOSE i \in positions : \A k \in positions : i <= k

(* C24: if an applicable extractor's extract raises, extract_all raises    *)
(* too: no record, partial or not, is returned, the extractors run are the *)
(* applicable ones up to the first that raises, and none registered after  *)
(* it is run.                                                              *)
C24_RaisePropagates ==
    Called =>
        LET raisers == Raisers(outcome.extractors, outcome.discovery)
        IN  /\ outcome.raised <=> raisers # {}
            /\ raisers # {} =>
                  /\ "merged" \notin DOMAIN outcome
                  /\ Increasing(outcome.ran)
                  /\ Names(outcome.ran)
                         = {i \in Handlers(outcome.extractors, outcome.discovery) : i <= First(raisers)}
                  /\ Len(outcome.results) = Len(outcome.ran) - 1

(* the JavaScript extractor raised on a package.json whose values have the *)
(* wrong type: the code analyzer registered after it was not run           *)
C24_Witness ==
    /\ Called
    /\ outcome.raised
    /\ outcome.extractors = <<"Generic", "JavaScript", "CodeAnalyzer">>
    /\ outcome.ran = <<1, 2>>
    /\ Len(outcome.results) = 1
    /\ can_handle("CodeAnalyzer", outcome.discovery)

-----------------------------------------------------------------------------
(* The enhancers (src/autodoc/github.py, src/autodoc/llm.py): each call    *)
(* works on the record metadata in place.  The answers of the GitHub API   *)
(* and of the LLM provider are inputs of the call.                         *)

(* Python truthiness of an optional string *)
Truthy(v) == v # None /\ v # ""

GitHubUrls == {"https://github.com/owner/repo", "git@github.com:owner/repo.git"}

(* an Optional object is a sequence of no or one element *)
parse_github_url(url) ==
    IF url \in GitHubUrls THEN <<[owner |-> "owner", repo |-> "repo"]>> ELSE <<>>

(* get_repo_info, get_contributors and get_languages answer None or        *)
(* nothing when the request fails                                          *)
GitHubReplies ==
    { [repo_info |-> <<>>, contributors |-> <<>>, languages |-> <<>>],
      [repo_info |-> <<[description |-> "Repository description on GitHub", name |-> "repo",
                        homepage |-> "https://owner.github.io/repo", license |-> "Apache-2.0"]>>,
       contributors |-> <<"alice", "dependabot[bot]", "carol">>,
       languages |-> << <<"Go", 250>>, <<"Python", 750>> >>],
      [repo_info |-> <<[description |-> None, name |-> "repo",
                        homepage |-> "", license |-> "NOASSERTION"]>>,
       contributors |-> <<"release-bot">>,
       languages |-> <<>>],
      [repo_info |-> <<>>, contributors |-> <<"carol">>, languages |-> << <<"Go", 100>> >>] }

enhance_from_repo_info_anyName(rec, repo_info) ==
    LET described == IF is_placeholder(rec.description) /\ Truthy(repo_info.description)
                         THEN [rec EXCEPT !.description =
                                   MetadataField(repo_info.description, "STRONG",
                                                 "GitHub repository description", None)]
                         ELSE rec
        named == IF Truthy(repo_info.name)
                     THEN [described EXCEPT !.name =
                               MetadataField(repo_info.name, "STRONG", "GitHub repository name", None)]
                     ELSE described
        homed == IF is_placeholder(named.homepage_url) /\ Truthy(repo_info.homepage)
                     THEN [named EXCEPT !.homepage_url =
                               MetadataField(repo_info.homepage, "EXPLICIT",
                                             "GitHub repository homepage", None)]
                     ELSE named
    IN  IF is_placeholder(homed.license) /\ Truthy(repo_info.license)
               /\ repo_info.license # "NOASSERTION"
            THEN [homed EXCEPT !.license =
                      MetadataField(repo_info.license, "EXPLICIT", "GitHub repository license", None)]
            ELSE homed

enhance_from_repo_info(rec, repo_info) ==
    LET described == IF is_placeholder(rec.description) /\ Truthy(repo_info.description)
                         THEN [rec EXCEPT !.description =
                                   MetadataField(repo_info.description, "STRONG",
                                                 "GitHub repository description", None)]
                         ELSE rec
        named == IF Weight(described.name.confidence) < Weight("STRONG") /\ Truthy(repo_info.name)
                     THEN [described EXCEPT !.name =
                               MetadataField(repo_info.name, "STRONG", "GitHub repository name", None)]
                     ELSE described
        homed == IF is_placeholder(named.homepage_url) /\ Truthy(repo_info.homepage)
                     THEN [named EXCEPT !.homepage_url =
                               MetadataField(repo_info.homepage, "EXPLICIT",
                                             "GitHub repository homepage", None)]
                     ELSE named
    IN  IF is_placeholder(homed.license) /\ Truthy(repo_info.license)
               /\ repo_info.license # "NOASSERTION"
            THEN [homed EXCEPT !.license =
                      MetadataField(repo_info.license, "EXPLICIT", "GitHub repository license", None)]
            ELSE homed

(* str.lower() on the names of the model *)
Lower(name) ==
    CASE name = "Alice" -> "alice"
      [] name = "Bob" -> "bob"
      [] OTHER -> name

BotLogins == {"dependabot[bot]", "release-bot"}

RECURSIVE add_contributors(_, _, _)
add_contributors(rec, contributors, i) ==
    IF i > Len(contributors) THEN rec
    ELSE LET login == contributors[i]
             existing_names == {Lower(rec.authors[j].name) : j \in 1 .. Len(rec.authors)}
         IN  IF login \in BotLogins \/ Lower(login) \in existing_names
                 THEN add_contributors(rec, contributors, i + 1)
                 ELSE add_contributors(
                          [rec EXCEPT !.authors =
                               Append(@, Author(login, None, "contributor", "GitHub contributors"))],
                          contributors, i + 1)

(* sorted(languages.items(), key=bytes, reverse=True): a stable sort *)
RECURSIVE SortedByBytes(_)
SortedByBytes(languages) ==
    IF languages = <<>> THEN <<>>
    ELSE LET top == CHOOSE i \in 1 .. Len(languages) :
                        \A j \in 1 .. Len(languages) :
                            \/ languages[j][2] < languages[i][2]
                            \/ (languages[j][2] = languages[i][2] /\ i <= j)
         IN  <<languages[top]>>
             \o SortedByBytes([j \in 1 .. Len(languages) - 1 |->
                                   IF j < top THEN languages[j] ELSE languages[j + 1]])

RECURSIVE TotalBytes(_, _)
TotalBytes(languages, i) ==
    IF i > Len(languages) THEN 0 ELSE languages[i][2] + TotalBytes(languages, i + 1)

(* f"{lang}: {percentage:.1f}%" *)
LanguageShare(lang, total_bytes) ==
    LET tenths == (lang[2] * 2000 + total_bytes) \div (2 * total_bytes)
    IN  lang[1] \o ": " \o ToString(tenths \div 10) \o "." \o ToString(tenths % 10) \o "%"

RECURSIVE JoinShares(_, _, _)
JoinShares(sorted_langs, total_bytes, i) ==
    IF i > Len(sorted_langs) \/ i > 5 THEN ""
    ELSE (IF i > 1 THEN ", " ELSE "") \o LanguageShare(sorted_langs[i], total_bytes)
         \o JoinShares(sorted_langs, total_bytes, i + 1)

add_languages(rec, languages) ==
    IF languages = <<>> THEN rec
    ELSE LET sorted_langs == SortedByBytes(languages)
             primary == IF Weight(rec.primary_language.confidence) < Weight("STRONG")
                            THEN [rec EXCEPT !.primary_language =
                                      MetadataField(sorted_langs[1][1], "STRONG",
                                                    "GitHub language statistics", None)]
                            ELSE rec
         IN  [primary EXCEPT !.extraction_warnings =
                  Append(@, "Languages detected: "
                            \o JoinShares(sorted_langs, TotalBytes(languages, 1), 1))]

GitHubEnhancer_enhance(rec, github_url, reply) ==
    LET url == IF Truthy(github_url) THEN github_url
               ELSE IF Truthy(rec.repository_url.value) THEN rec.repository_url.value
               ELSE None
        from_info == IF reply.repo_info # <<>>
                         THEN enhance_from_repo_info(rec, reply.repo_info[1]) ELSE rec
        from_contributors == IF reply.contributors # <<>>
                                 THEN add_contributors(from_info, reply.contributors, 1)
                                 ELSE from_info
    IN  IF url = None THEN rec
        ELSE IF parse_github_url(url) = <<>> THEN rec
        ELSE add_languages(from_contributors, reply.languages)

(* the descriptions of the model shorter than 20 characters, and those     *)
(* that contain one of the generic patterns                                *)
ShortDescription == "CLI tool"

GenericDescription == "A collection of helper scripts for everyday work"

SpecificDescription == "Generates README files from repository metadata"

ShortValues == {"", ShortDescription} \cup {"value-" \o Origin(r) : r \in RecordIds}

GenericValues == {GenericDescription}

needs_better_description(desc_field) ==
    \/ is_placeholder(desc_field)
    \/ ~Truthy(desc_field.value)
    \/ desc_field.value \in ShortValues
    \/ desc_field.value \in GenericValues

(* what the provider generates: text that looks like code or a file tree   *)
(* or is shorter than 100 characters is rejected                           *)
GeneratedDescription == "Generated description of five to seven sentences"

RejectedReplies == {"def main(): pass", "Too short"}

generate_description(generated) ==
    IF ~Truthy(generated) THEN generated
    ELSE IF generated \in RejectedReplies THEN None
    ELSE generated

LLMReplies ==
    { [provider |-> None, generated |-> GeneratedDescription,
       features |-> <<"Feature one">>, architecture |-> "Layered"],
      [provider |-> "Groq", generated |-> GeneratedDescription,
       features |-> <<"Feature one", "Feature two">>, architecture |-> None],
      [provider |-> "Claude", generated |-> "def main(): pass",
       features |-> <<>>, architecture |-> "Pipeline of extractors"],
      [provider |-> "Gemini", generated |-> None,
       features |-> <<"Feature three">>, architecture |-> "Layered"] }

LLMEnhancer_enhance(rec, reply) ==
    LET description == generate_description(reply.generated)
        described == IF needs_better_description(rec.description) /\ Truthy(description)
                         THEN [rec EXCEPT !.description =
                                   MetadataField(description, "REASONABLE",
                                                 "LLM (" \o reply.provider \o ")",
                                                 "AI-generated description - please review for accuracy")]
                         ELSE rec
        featured == IF described.key_features = <<>> /\ reply.features # <<>>
                        THEN [described EXCEPT !.key_features = reply.features]
                        ELSE described
    IN  IF reply.provider = None THEN rec
        ELSE IF ~Truthy(featured.architecture_summary) /\ Truthy(reply.architecture)
            THEN [featured EXCEPT !.architecture_summary = reply.architecture]
        ELSE featured

-----------------------------------------------------------------------------
(* metadata_to_dict (src/autodoc/api.py): a dict is a function from its    *)
(* keys; confidence.name is the level's name and confidence.value its      *)
(* weight, in tenths.                                                      *)

FieldToDict_withoutFlags(fld) ==
    [value |-> fld.value,
     confidence |-> fld.confidence,
     confidence_score |-> Weight(fld.confidence),
     source |-> fld.source,
     note |-> fld.note,
     is_placeholder |-> FALSE,
     needs_review |-> FALSE]

FieldToDict(fld) ==
    [value |-> fld.value,
     confidence |-> fld.confidence,
     confidence_score |-> Weight(fld.confidence),
     source |-> fld.source,
     note |-> fld.note,
     is_placeholder |-> is_placeholder(fld),
     needs_review |-> needs_review(fld)]

(* dataclasses.asdict on an Author *)
asdict(a) == [name |-> a.name, email |-> a.email, role |-> a.role, source |-> a.source]

DependencyToDict(d) ==
    [name |-> d.name, version_constraint |-> d.version_constraint,
     is_dev |-> d.is_dev, source |-> d.source]

EntryPointToDict(e) ==
    [path |-> e.path, entry_type |-> e.entry_type, command |-> e.command,
     confidence |-> IF e.confidence # None THEN e.confidence ELSE None]

metadata_to_dict(rec) ==
    [name |-> FieldToDict(rec.name),
     description |-> FieldToDict(rec.description),
     version |-> FieldToDict(rec.version),
     license |-> FieldToDict(rec.license),
     python_version |-> FieldToDict(rec.python_version),
     primary_language |-> FieldToDict(rec.primary_language),
     repository_url |-> FieldToDict(rec.repository_url),
     homepage_url |-> FieldToDict(rec.homepage_url),
     authors |-> [i \in 1 .. Len(rec.authors) |-> asdict(rec.authors[i])],
     dependencies |-> [i \in 1 .. Len(rec.dependencies) |-> DependencyToDict(rec.dependencies[i])],
     dev_dependencies |->
         [i \in 1 .. Len(rec.dev_dependencies) |-> DependencyToDict(rec.dev_dependencies[i])],
     entry_points |-> [i \in 1 .. Len(rec.entry_points) |-> EntryPointToDict(rec.entry_points[i])],
     has_tests |-> rec.has_tests,
     has_ci_config |-> rec.has_ci_config,
     has_docs_folder |-> rec.has_docs_folder]

-----------------------------------------------------------------------------
(* The enhancers and the serialization on one record: metadata is built,   *)
(* enhanced by either enhancer and serialized.  answer keeps the last call *)
(* with the record it found and what it returned.                          *)

DescriptionFields ==
    {MetadataField(v, c, "pyproject.toml [project.description]", None) :
        v \in {ShortDescription, GenericDescription, SpecificDescription},
        c \in {"WEAK", "REASONABLE", "EXPLICIT"}}

InitEnhance ==
    /\ \E k \in 0 .. Len(InputProfiles) :
       \E description \in DescriptionFields \cup {RecordOf(k, metadata).description} :
           heap = [r \in RecordIds |->
                      IF r = metadata THEN [RecordOf(k, r) EXCEPT !.description = description]
                      ELSE ProjectMetadata]
    /\ initial = heap
    /\ calls = <<>>
    /\ assigned = 0
    /\ answer = NoAnswer
    /\ registry = <<>>
    /\ runs = 0
    /\ outcome = NoOutcome

Enhance(method, result) ==
    /\ assigned < MaxEnhancements
    /\ heap' = [heap EXCEPT ![metadata] = result]
    /\ answer' = [method |-> method, record |-> heap[metadata], result |-> result]
    /\ assigned' = assigned + 1
    /\ UNCHANGED <<initial, calls, registry, runs, outcome>>

GitHubEnhance(github_url, reply) ==
    Enhance("GitHubEnhancer.enhance", GitHubEnhancer_enhance(heap[metadata], github_url, reply))

LLMEnhance(reply) ==
    Enhance("LLMEnhancer.enhance", LLMEnhancer_enhance(heap[metadata], reply))

MetadataToDict ==
    /\ answer' = [method |-> "metadata_to_dict", record |-> heap[metadata],
                  result |-> metadata_to_dict(heap[metadata])]
    /\ UNCHANGED <<heap, initial, calls, assigned, registry, runs, outcome>>

GitHubUrlArguments == {None, "https://github.com/owner/repo", "https://gitlab.com/owner/repo"}

NextEnhance ==
    \/ \E github_url \in GitHubUrlArguments, reply \in GitHubReplies : GitHubEnhance(github_url, reply)
    \/ \E reply \in LLMReplies : LLMEnhance(reply)
    \/ MetadataToDict

SpecEnhance == InitEnhance /\ [][NextEnhance]_vars

-----------------------------------------------------------------------------
(* What the enhancers replace *)

EnhancerCalled == answer.method \in {"GitHubEnhancer.enhance", "LLMEnhancer.enhance"}

Replaced(f) == answer.result[f] # answer.record[f]

C25_WitnessExplicitDescription ==
    /\ answer.method = "LLMEnhancer.enhance"
    /\ answer.record.description.confidence = "EXPLICIT"
    /\ answer.record.description.value = ShortDescription
    /\ answer.result.description.confidence = "REASONABLE"

-----------------------------------------------------------------------------
(* The serialization *)

Serialized == answer.method = "metadata_to_dict"

(* the array is the list in record order, each element carrying the given  *)
(* attributes of its entry                                                 *)
ArrayOf(array, list, attributes) ==
    /\ DOMAIN array = DOMAIN list
    /\ \A i \in DOMAIN list :
          /\ DOMAIN array[i] = attributes
          /\ \A a \in attributes : array[i][a] = list[i][a]

(* C26, as stated: metadata_to_dict gives for each of the 8 tracked scalar *)
(* fields an object with exactly the members value, confidence_name,       *)
(* confidence_weight, source, note, is_placeholder, needs_review, and each *)
(* list as an array in record order whose elements carry every attribute   *)
(* of the entry type.                                                      *)
C26_SevenMembersAndWholeEntries ==
    Serialized =>
        /\ \A f \in FieldSet :
              DOMAIN answer.result[f] = {"value", "confidence_name", "confidence_weight",
                                         "source", "note", "is_placeholder", "needs_review"}
        /\ \A attr \in ListSet :
              /\ DOMAIN answer.result[attr] = DOMAIN answer.record[attr]
              /\ \A i \in DOMAIN answer.record[attr] :
                    answer.result[attr][i] = answer.record[attr][i]

(* C26, amended: metadata_to_dict gives for each of the 8 tracked scalar   *)
(* fields an object with exactly the seven members value, confidence (the  *)
(* level's name), confidence_score (its weight), source, note,             *)
(* is_placeholder, needs_review, and each list as an array in record       *)
(* order; the elements of authors, dependencies and dev_dependencies carry *)
(* every attribute of the entry, those of entry_points carry path,         *)
(* entry_type, command and confidence, and not the entry's note.           *)
C26_SevenMembersAndListedAttributes ==
    Serialized =>
        /\ \A f \in FieldSet :
              LET fld == answer.record[f]
                  obj == answer.result[f]
              IN  /\ DOMAIN obj = {"value", "confidence", "confidence_score",
                                   "source", "note", "is_placeholder", "needs_review"}
                  /\ obj.value = fld.value /\ obj.source = fld.source /\ obj.note = fld.note
                  /\ obj.confidence = fld.confidence
                  /\ obj.confidence_score = Weight(fld.confidence)
                  /\ obj.is_placeholder = is_placeholder(fld)
                  /\ obj.needs_review = needs_review(fld)
        /\ ArrayOf(answer.result.authors, answer.record.authors, {"name", "email", "role", "source"})
        /\ \A attr \in {"dependencies", "dev_dependencies"} :
              ArrayOf(answer.result[attr], answer.record[attr],
                      {"name", "version_constraint", "is_dev", "source"})
        /\ ArrayOf(answer.result.entry_points, answer.record.entry_points,
                   {"path", "entry_type", "command", "confidence"})
        /\ \A attr \in {"authors", "dependencies", "dev_dependencies"} :
              \A i \in DOMAIN answer.record[attr] :
                  DOMAIN answer.result[attr][i] = DOMAIN answer.record[attr][i]

(* a record with a placeholder, a field that needs review, two authors and *)
(* an entry point with a note has been serialized                          *)
C26_Witness ==
    /\ Serialized
    /\ \E f \in FieldSet : answer.result[f].is_placeholder
    /\ \E f \in FieldSet : answer.result[f].needs_review /\ ~answer.result[f].is_placeholder
    /\ \E f \in FieldSet : answer.result[f].confidence_score = 10
    /\ Len(answer.result.authors) = 2
    /\ answer.result.authors[1].name # answer.result.authors[2].name
    /\ Len(answer.result.dependencies) = 2
    /\ Len(answer.result.entry_points) >= 1
    /\ answer.record.entry_points[1].note # None

-----------------------------------------------------------------------------
(* process_project (src/autodoc/api.py): discovery, extraction with a      *)
(* fresh registry, the two enhancers, the serialization.  The discovery    *)
(* result and the answers of GitHub and of the LLM provider are inputs;    *)
(* they are well formed, so neither enhancer raises.  The Java and C++     *)
(* extractors of the registry handle none of the discovery results used    *)
(* here.  answer keeps the last call and the dict it returned.             *)

create_extractor_registry ==
    <<BaseExtractor("Generic"), BaseExtractor("Python"),
      BaseExtractor("JavaScript"), BaseExtractor("CodeAnalyzer")>>

DiscoverySection(discovery_result, rec) ==
    [total_files |-> discovery_result.total_file_count,
     warnings |-> discovery_result.warnings \o rec.extraction_warnings]

Serialize(discovery_result, rec) ==
    [metadata_dict |-> metadata_to_dict(rec),
     discovery |-> DiscoverySection(discovery_result, rec)]

EnhanceAll(merged, github_url, github_reply, use_llm, llm_reply) ==
    CHOOSE enhanced \in
        {IF use_llm /\ llm_reply.provider # None
             THEN LLMEnhancer_enhance(from_github, llm_reply)
             ELSE from_github :
            from_github \in {IF Truthy(github_url)
                                  THEN GitHubEnhancer_enhance(merged, github_url, github_reply)
                                  ELSE merged}} : TRUE

(* each step works on the record the step before it has left: the record   *)
(* is bound to a name before the next step reads it                        *)
Enhanced(discovery_result, merged, github_url, github_reply, use_llm, llm_reply) ==
    CHOOSE returned \in
        {[raised |-> FALSE, result |-> Serialize(discovery_result, rec)] :
            rec \in {EnhanceAll(merged, github_url, github_reply, use_llm, llm_reply)}} : TRUE

Extraction(discovery_result, extracted, github_url, github_reply, use_llm, llm_reply) ==
    IF extracted.raised THEN [raised |-> TRUE]
    ELSE Enhanced(discovery_result, extracted.merged, github_url, github_reply, use_llm, llm_reply)

process_project(discovery_result, github_url, github_reply, use_llm, llm_reply) ==
    CHOOSE returned \in
        {Extraction(discovery_result, extracted, github_url, github_reply, use_llm, llm_reply) :
            extracted \in {extract_all(create_extractor_registry, discovery_result)}} : TRUE

InitProject ==
    /\ heap = [r \in RecordIds |-> ProjectMetadata]
    /\ initial = heap
    /\ calls = <<>>
    /\ assigned = 0
    /\ answer = NoAnswer
    /\ registry = <<>>
    /\ runs = 0
    /\ outcome = NoOutcome

Returned(discovery_result, github_url, use_llm, call) ==
    [method |-> "process_project", discovery |-> discovery_result,
     github_url |-> github_url, use_llm |-> use_llm] @@ call

ProcessProject(discovery_result, github_url, github_reply, use_llm, llm_reply) ==
    /\ runs < MaxRuns
    /\ answer' = Returned(discovery_result, github_url, use_llm,
                          process_project(discovery_result, github_url, github_reply,
                                          use_llm, llm_reply))
    /\ runs' = runs + 1
    /\ UNCHANGED <<heap, initial, calls, assigned, registry, outcome>>

NextProject ==
    \E discovery_result \in Discoveries, github_url \in GitHubUrlArguments,
       github_reply \in GitHubReplies, use_llm \in BOOLEAN, llm_reply \in LLMReplies :
        ProcessProject(discovery_result, github_url, github_reply, use_llm, llm_reply)

SpecProject == InitProject /\ [][NextProject]_vars

Processed == answer.method = "process_project" /\ ~answer.raised

(* C30: in process_project every warning produced by file discovery is     *)
(* exactly once in the warnings list of the returned dict's discovery      *)
(* section, alongside the extraction and enhancement warnings.             *)
C30_DiscoveryWarningsOnce ==
    Processed =>
        \A w \in Names(answer.discovery.warnings) :
            Occurrences(answer.result.discovery.warnings, w) = 1

-----------------------------------------------------------------------------
(* PythonExtractor.extract (src/autodoc/extractors/python.py), parser by   *)
(* parser.  A project is what the extractor finds on disk: each of         *)
(* pyproject.toml, setup.cfg and setup.py is absent (<<>>) or holds a set  *)
(* of keys (<<keys>>); the files are readable and well formed, and         *)
(* pyproject.toml has a [project] table, no [tool.poetry] and no           *)
(* [build-system].  Every value names the file and the key it comes from.  *)

ValueIn(file, key) == key \o " in " \o file

FieldIn(keys, key, file, confidence, source) ==
    IF key \in keys THEN <<MetadataField(ValueIn(file, key), confidence, source, None)>> ELSE <<>>

(* the field a parser assigns, or the field as it was *)
Assigned(assignment, old) == IF assignment = <<>> THEN old ELSE assignment[1]

RequirementsIn(keys, key, names, source) ==
    IF key \in keys
        THEN [j \in 1 .. Len(names) |-> Dependency(names[j], None, FALSE, source)]
        ELSE <<>>

AuthorIn(keys, key, file, source) ==
    IF key \in keys THEN <<Author(ValueIn(file, key), None, None, source)>> ELSE <<>>

LICENSE_CLASSIFIERS == [classifier \in {"License :: OSI Approved :: MIT License"} |-> "MIT"]

extract_pep621(project, source) ==
    LET license == Assigned(FieldIn(project, "license", source, "EXPLICIT",
                                    source \o " [project.license]"),
                            ProjectMetadata.license)
        classifier == "License :: OSI Approved :: MIT License"
    IN  [ProjectMetadata EXCEPT
            !.name = Assigned(FieldIn(project, "name", source, "EXPLICIT",
                                      source \o " [project.name]"), @),
            !.version = Assigned(FieldIn(project, "version", source, "EXPLICIT",
                                         source \o " [project.version]"), @),
            !.description = Assigned(FieldIn(project, "description", source, "EXPLICIT",
                                             source \o " [project.description]"), @),
            !.authors = AuthorIn(project, "authors", source, source \o " [project.authors]"),
            !.license = IF "classifiers" \in project /\ license.value = None
                            THEN MetadataField(LICENSE_CLASSIFIERS[classifier], "STRONG",
                                               source \o " [project.classifiers]",
                                               "Inferred from classifier: " \o classifier)
                            ELSE license,
            !.python_version = Assigned(FieldIn(project, "requires-python", source, "EXPLICIT",
                                                source \o " [project.requires-python]"), @),
            !.dependencies = RequirementsIn(project, "dependencies", <<"requests", "click">>,
                                            source \o " [project.dependencies]"),
            !.homepage_url = Assigned(FieldIn(project, "urls", source, "EXPLICIT",
                                              source \o " [project.urls]"), @),
            !.repository_url = Assigned(FieldIn(project, "urls", source, "EXPLICIT",
                                                source \o " [project.urls]"), @)]

extract_from_pyproject(project) == extract_pep621(project, "pyproject.toml")

extract_from_setup_cfg(meta) ==
    LET source == "setup.cfg"
    IN  [ProjectMetadata EXCEPT
            !.name = Assigned(FieldIn(meta, "name", source, "EXPLICIT",
                                      source \o " [metadata.name]"), @),
            !.version = Assigned(FieldIn(meta, "version", source, "EXPLICIT",
                                         source \o " [metadata.version]"), @),
            !.description = Assigned(FieldIn(meta, "description", source, "EXPLICIT",
                                             source \o " [metadata.description]"), @),
            !.authors = AuthorIn(meta, "author", source, source \o " [metadata]"),
            !.license = Assigned(FieldIn(meta, "license", source, "EXPLICIT",
                                         source \o " [metadata.license]"), @),
            !.homepage_url = Assigned(FieldIn(meta, "url", source, "EXPLICIT",
                                              source \o " [metadata.url]"), @),
            !.python_version = Assigned(FieldIn(meta, "python_requires", source, "EXPLICIT",
                                                source \o " [options.python_requires]"), @),
            !.dependencies = RequirementsIn(meta, "install_requires", <<"requests">>,
                                            source \o " [options.install_requires]")]

extract_from_setup_py(kwargs) ==
    LET source == "setup.py"
    IN  [ProjectMetadata EXCEPT
            !.name = Assigned(FieldIn(kwargs, "name", source, "STRONG", source), @),
            !.version = Assigned(FieldIn(kwargs, "version", source, "STRONG", source), @),
            !.description = Assigned(FieldIn(kwargs, "description", source, "STRONG", source), @),
            !.authors = AuthorIn(kwargs, "author", source, source),
            !.license = Assigned(FieldIn(kwargs, "license", source, "STRONG", source), @),
            !.homepage_url = Assigned(FieldIn(kwargs, "url", source, "STRONG", source), @),
            !.python_version = Assigned(FieldIn(kwargs, "python_requires", source, "STRONG", source), @),
            !.dependencies = RequirementsIn(kwargs, "install_requires", <<"click", "pytest">>,
                                            source \o " install_requires")]

(* the lines of requirements.txt *)
extract_from_requirements(lines) ==
    [ProjectMetadata EXCEPT
        !.dependencies = [j \in 1 .. Len(lines) |-> Dependency(lines[j], None, FALSE, "requirements.txt")]]

(* a setup.sh with a conda create command and pip install commands *)
extract_from_setup_sh(commands) ==
    [ProjectMetadata EXCEPT
        !.python_version = IF "conda create" \in commands
                               THEN MetadataField(">=3.8", "REASONABLE", "setup.sh (conda create)",
                                                  "Extracted from conda create command")
                               ELSE @,
        !.dependencies = RequirementsIn(commands, "pip install", <<"pytest">>, "setup.sh (pip install)")]

(* the entry point files of the discovery result *)
detect_entry_points(paths) ==
    [ProjectMetadata EXCEPT
        !.entry_points =
            [j \in 1 .. Len(paths) |->
                IF paths[j] = "cli.py"
                    THEN EntryPoint(paths[j], "cli", None, "REASONABLE", "Likely CLI entry point")
                ELSE IF paths[j] = "main.py"
                    THEN EntryPoint(paths[j], "main", None, "REASONABLE", "Main application entry point")
                ELSE EntryPoint(paths[j], "script", None, "REASONABLE",
                                "Detected from filename: " \o paths[j])]]

MergedIfExists(rec, file, parsed) == IF file = <<>> THEN rec ELSE Merged(rec, parsed)

PythonExtractor_extract(project) ==
    LET language == [ProjectMetadata EXCEPT
                        !.primary_language = MetadataField("Python", "STRONG", "File extension analysis",
                                                           "Python source files detected")]
        pyproject == MergedIfExists(language, project.pyproject,
                                    extract_from_pyproject(Head(project.pyproject)))
        setup_cfg == MergedIfExists(pyproject, project.setup_cfg,
                                    extract_from_setup_cfg(Head(project.setup_cfg)))
        setup_py == MergedIfExists(setup_cfg, project.setup_py,
                                   extract_from_setup_py(Head(project.setup_py)))
        requirements == Merged(setup_py, extract_from_requirements(project.requirements))
        setup_sh == MergedIfExists(requirements, project.setup_sh,
                                   extract_from_setup_sh(Head(project.setup_sh)))
        entry_points == Merged(setup_sh, detect_entry_points(project.entry_point_files))
    IN  [entry_points EXCEPT !.has_tests = project.test_files,
                             !.has_ci_config = project.ci_config]

PyprojectTables ==
    { {}, {"name", "version"}, {"classifiers"}, {"name", "license"}, {"name", "classifiers", "urls"},
      {"name", "version", "description", "authors", "license", "classifiers",
       "requires-python", "dependencies", "urls"} }

SetupCfgSections ==
    { {}, {"license"}, {"name", "url"},
      {"name", "version", "description", "author", "license", "url", "python_requires",
       "install_requires"} }

SetupPyKeywords ==
    { {}, {"license"}, {"name", "version", "python_requires"},
      {"name", "version", "description", "author", "license", "url", "python_requires",
       "install_requires"} }

Optional(set) == {<<>>} \cup {<<x>> : x \in set}

(* what else the project holds: nothing, or requirements, a setup.sh, two  *)
(* entry point files, tests and a CI configuration                         *)
Surroundings ==
    { [requirements |-> <<>>, setup_sh |-> <<>>, entry_point_files |-> <<>>,
       test_files |-> FALSE, ci_config |-> FALSE],
      [requirements |-> <<"requests", "numpy">>, setup_sh |-> <<{"conda create", "pip install"}>>,
       entry_point_files |-> <<"main.py", "run.py">>, test_files |-> TRUE, ci_config |-> TRUE] }

PythonProjects ==
    {[pyproject |-> a, setup_cfg |-> b, setup_py |-> c] @@ rest :
        a \in Optional(PyprojectTables), b \in Optional(SetupCfgSections),
        c \in Optional(SetupPyKeywords), rest \in Surroundings}

InitPython ==
    /\ heap = [r \in RecordIds |-> ProjectMetadata]
    /\ initial = heap
    /\ calls = <<>>
    /\ assigned = 0
    /\ answer = NoAnswer
    /\ registry = <<>>
    /\ runs = 0
    /\ outcome = NoOutcome

PythonExtractorExtract(project) ==
    /\ runs < MaxRuns
    /\ answer' = [method |-> "PythonExtractor.extract", project |-> project,
                  result |-> PythonExtractor_extract(project)]
    /\ runs' = runs + 1
    /\ UNCHANGED <<heap, initial, calls, assigned, registry, outcome>>

NextPython == \E project \in PythonProjects : PythonExtractorExtract(project)

SpecPython == InitPython /\ [][NextPython]_vars

(* the three metadata files in the documented priority order *)
PriorityOrder == <<"pyproject", "setup_cfg", "setup_py">>

(* the record the parser of a file returns *)
ParsedFrom(project, file) ==
    CASE file = "pyproject" -> extract_from_pyproject(Head(project.pyproject))
      [] file = "setup_cfg" -> extract_from_setup_cfg(Head(project.setup_cfg))
      [] file = "setup_py" -> extract_from_setup_py(Head(project.setup_py))

(* the file exists and its parser obtains a value for the field *)
Provides(project, file, f) ==
    project[file] # <<>> /\ ParsedFrom(project, file)[f] # ProjectMetadata[f]

(* C27: PythonExtractor.extract applies pyproject.toml, then setup.cfg,    *)
(* then setup.py: for every tracked scalar field, when two of the files    *)
(* provide it the result does not hold the value of the lower-priority     *)
(* file.                                                                   *)
C27_HigherPriorityFileWins ==
    answer.method = "PythonExtractor.extract" =>
        \A f \in FieldSet :
            \A i \in 1 .. Len(PriorityOrder), j \in 1 .. Len(PriorityOrder) :
                (/\ i < j
                 /\ Provides(answer.project, PriorityOrder[i], f)
                 /\ Provides(answer.project, PriorityOrder[j], f))
                    => answer.result[f] # ParsedFrom(answer.project, PriorityOrder[j])[f]

====
